---- MODULE Spec2Model ----
(***************************************************************************)
(* Model of the "handler" generator (src/handler/generator.go): one run of *)
(* main() over a parsed, type-checked package, and one execution of the    *)
(* http handler that the handlerWrap template renders.                     *)
(*                                                                         *)
(* Text is modelled structurally: a Go string that the program builds by   *)
(* concatenation is a sequence of tokens (paramfullname "z.D" is           *)
(* <<"z", ".", "D">>), and the output buffer is a sequence of lines.       *)
(***************************************************************************)
EXTENDS Integers, Sequences, FiniteSets, TLC

(***************************************************************************)
(* Bounds of the model.                                                    *)
(***************************************************************************)
MaxFuncs == 2        \* names in the -func list
MaxEncodings == 2    \* packages in the -encoding list
MaxDecls == 2        \* top-level declarations in the whole package

(***************************************************************************)
(* The environment: the packages build.Import can find, and their names.   *)
(***************************************************************************)
Pkgs == {"encoding/json", "encoding/xml", "no/such"}

InstalledPkgs == {"encoding/json", "encoding/xml"}

PkgName(path) ==
    CASE path = "encoding/json" -> "json"
      [] path = "encoding/xml" -> "xml"
      [] OTHER -> ""

\* build.Import(path, ".", 0): the package, or an error
BuildImport(path) ==
    IF path \in InstalledPkgs
    THEN [err |-> FALSE, Name |-> PkgName(path)]
    ELSE [err |-> TRUE, Name |-> ""]

\* strings.ToUpper, on the package names of the environment
ToUpper(s) ==
    CASE s = "json" -> "JSON"
      [] s = "xml" -> "XML"
      [] OTHER -> s

StatusBadRequest == 400

(***************************************************************************)
(* The syntax trees go/parser hands to the generator.                      *)
(***************************************************************************)
Ident(name) == [node |-> "Ident", X |-> "", Name |-> name]

SelectorExpr(q, sel) == [node |-> "SelectorExpr", X |-> q, Name |-> sel]

StarExpr(name) == [node |-> "StarExpr", X |-> "", Name |-> name]

\* one entry of ast.FieldList.List: `a, b X` is ONE field with two names
Field(names, type) == [Names |-> names, Type |-> type]

FuncDecl(name, recv, params) ==
    [node |-> "FuncDecl", Name |-> name, Recv |-> recv, Params |-> params]

\* the root of a file's tree, an *ast.File
FileNode == [node |-> "File", Name |-> "", Recv |-> FALSE, Params |-> <<>>]

\* the parameter lists a declaration of the package can have
ParamLists ==
    { <<>>,                                          \* F()
      <<Field(1, Ident("X"))>>,                      \* F(x X)
      <<Field(1, SelectorExpr("z", "D"))>>,          \* F(d z.D)
      <<Field(2, Ident("X"))>>,                      \* F(a, b X)
      <<Field(1, Ident("A")), Field(1, SelectorExpr("z", "D"))>>, \* F(a A, d z.D)
      <<Field(1, StarExpr("X"))>> }                  \* F(p *X)

FuncNames == {"F", "G"}

Decls ==
    {FuncDecl("F", FALSE, ps) : ps \in ParamLists}
      \cup {FuncDecl("G", FALSE, <<Field(1, Ident("Y"))>>),
            FuncDecl("F", TRUE, <<Field(1, Ident("M"))>>)}   \* method (T) F(m M)

\* Package.check: a package declares a function, and a method of one
\* receiver type, once
TypeChecks(ds) ==
    \A i, j \in DOMAIN ds :
        (i # j /\ ds[i].node = "FuncDecl" /\ ds[j].node = "FuncDecl")
            => <<ds[i].Name, ds[i].Recv>> # <<ds[j].Name, ds[j].Recv>>

DeclSeqs ==
    {ds \in UNION {[1..k -> Decls] : k \in 0..MaxDecls} : TypeChecks(ds)}

\* File: a parsed file and the walker's fields
NewFile(decls) ==
    [file |-> decls, funcName |-> "", paramfullname |-> <<>>, found |-> FALSE]

RECURSIVE SplitFiles(_, _, _, _)
\* the declarations ds laid out over files: a new file starts after each
\* position of cut
SplitFiles(ds, cut, j, acc) ==
    IF j > Len(ds) THEN acc
    ELSE LET n == Len(acc)
             put == [acc EXCEPT ![n] = Append(acc[n], ds[j])]
         IN SplitFiles(ds, cut, j + 1,
                       IF j \in cut THEN Append(put, <<>>) ELSE put)

\* parsePackage: the files of the package, every layout of the declarations
Packages ==
    { [k \in DOMAIN fs |-> NewFile(fs[k])] :
        fs \in UNION { { SplitFiles(ds, cut, 1, << <<>> >>) :
                           cut \in SUBSET (1..(Len(ds) - 1)) } :
                         ds \in DeclSeqs } }

SeqsUpTo(S, n) == UNION {[1..k -> S] : k \in 1..n}

(***************************************************************************)
(* State of one run of main().                                             *)
(***************************************************************************)
VARIABLES
    funcs,          \* strings.Split(*funcNames, ",")
    encodings,      \* strings.Split(*encodingPkgNames, ",")
    files,          \* g.pkg.files
    buf,            \* g.buf
    pc,             \* position of main
    i,              \* index of the import loop of main
    fi,             \* index of the outer (func) loop of main
    ei,             \* index of the inner (encoding) loop of main
    found,          \* generate's local found, as of its last call
    paramfullname,  \* generate's local paramfullname, as of its last call
    fmtErr,         \* format's err != nil
    src,            \* main's src, the result of g.format()
    writes,         \* the calls of ioutil.WriteFile: data and outcome
    exitCode,       \* exit status of the process, -1 while it runs
    hpc,            \* position of the generated handler
    x,              \* the handler's x
    err,            \* the handler's err != nil
    resp,           \* the handler's resp
    s,              \* the handler's s
    calls,          \* the arguments Func was called with
    ret,            \* what Func returned: <<first value, second value>>
    header,         \* the arguments of w.WriteHeader
    encoded         \* the values given to Encode

gvars == <<funcs, encodings, files, buf, pc, i, fi, ei, found, paramfullname,
           fmtErr, src, writes, exitCode>>

hvars == <<hpc, x, err, resp, s, calls, ret, header, encoded>>

vars == <<gvars, hvars>>

(***************************************************************************)
(* Lines of the output.                                                    *)
(***************************************************************************)
Line(kind, name, T, pkg, call) ==
    [kind |-> kind, name |-> name, T |-> T, pkg |-> pkg, call |-> call]

Blank == Line("blank", <<>>, <<>>, "", "")

Banner == Line("banner", <<>>, <<>>, "", "")

PackageClause == Line("package", <<>>, <<>>, "", "")

ImportLine(path) == Line("import", <<>>, <<>>, path, "")

\* Printf that writes at the front of the buffer
Printf_Front(b, text) == text \o b

\* Generator.Printf: the text goes to the end of the buffer
Printf(b, text) == b \o text

\* the template handlerWrap executed on Handler{Func, EncodingPkg, T}: an
\* empty line, then the func named Func + "Handler" + ToUpper(EncodingPkg)
\* that decodes into a T{} with EncodingPkg and calls Func
handlerWrap(h) ==
    << Blank,
       Line("func", <<h.Func, "Handler", ToUpper(h.EncodingPkg)>>, h.T,
            h.EncodingPkg, h.Func) >>

\* Generator.build: the executed template is written to g.buf
build(b, funcName, pkgName, T) ==
    b \o handlerWrap([Func |-> funcName, EncodingPkg |-> pkgName, T |-> T])

(***************************************************************************)
(* The walker.                                                             *)
(***************************************************************************)
\* File.genDecl on one node: the file afterwards
genDecl(f, decl) ==
    IF decl.node # "FuncDecl" THEN f
    ELSE IF decl.Name # f.funcName THEN f
    ELSE IF Len(decl.Params) # 1 THEN f
    ELSE LET v == decl.Params[1].Type
         IN CASE v.node = "Ident" ->
                   [f EXCEPT !.paramfullname = <<v.Name>>, !.found = TRUE]
              [] v.node = "SelectorExpr" ->
                   [f EXCEPT !.paramfullname = <<v.X, ".", v.Name>>,
                             !.found = TRUE]
              [] OTHER -> f

RECURSIVE InspectDecls(_, _)
\* genDecl on the declarations of the file from the k-th on, in source order
InspectDecls(f, k) ==
    IF k > Len(f.file) THEN f
    ELSE InspectDecls(genDecl(f, f.file[k]), k + 1)

\* ast.Inspect(file.file, file.genDecl): genDecl on the root, which is no
\* FuncDecl and lets the walk descend, then on every declaration; it never
\* descends into a FuncDecl
Inspect(f) == InspectDecls(genDecl(f, FileNode), 1)

\* the loop of Generator.generate over g.pkg.files: the files afterwards
Walk(fs, funcName) ==
    [k \in DOMAIN fs |-> Inspect([fs[k] EXCEPT !.funcName = funcName])]

\* generate's locals after its loop over the walked files fs
Found(fs) == \E k \in DOMAIN fs : fs[k].found

ParamFullName(fs) ==
    IF Found(fs)
    THEN fs[CHOOSE k \in DOMAIN fs :
                fs[k].found /\ \A m \in DOMAIN fs : fs[m].found => m <= k
           ].paramfullname
    ELSE <<>>

(***************************************************************************)
(* canonical formatting                                                    *)
(***************************************************************************)
RECURSIVE Squeeze(_)
\* gofmt keeps one of a run of empty lines
Squeeze(doc) ==
    IF Len(doc) < 2 THEN doc
    ELSE IF doc[1] = Blank /\ doc[2] = Blank THEN Squeeze(Tail(doc))
    ELSE <<doc[1]>> \o Squeeze(Tail(doc))

RECURSIVE TrimHead(_)
TrimHead(doc) ==
    IF doc # <<>> /\ doc[1] = Blank THEN TrimHead(Tail(doc)) ELSE doc

RECURSIVE TrimTail(_)
TrimTail(doc) ==
    IF doc # <<>> /\ doc[Len(doc)] = Blank
    THEN TrimTail(SubSeq(doc, 1, Len(doc) - 1))
    ELSE doc

\* format.Source on a source that parses: declarations, on separate
\* `import "p"` lines too, stay in their order (ast.SortImports only sorts
\* and merges inside parenthesised import blocks); runs of empty lines
\* shrink to one and those at either end go
Gofmt(doc) == TrimTail(TrimHead(Squeeze(doc)))

\* format that returns format.Source's empty result when it fails
format_Nil(b, e) == IF e THEN <<>> ELSE Gofmt(b)

\* Generator.format: the result for buffer b when format.Source fails (e)
\* or succeeds
format(b, e) == IF e THEN b ELSE Gofmt(b)

(***************************************************************************)
(* main()                                                                  *)
(***************************************************************************)
HandlerIdle ==
    /\ hpc = "idle"
    /\ x = 0
    /\ err = FALSE
    /\ resp = 0
    /\ s = 0
    /\ calls = <<>>
    /\ ret = <<>>
    /\ header = <<>>
    /\ encoded = <<>>

\* after flag parsing and parsePackage
Init ==
    /\ funcs \in SeqsUpTo(FuncNames, MaxFuncs)
    /\ encodings \in SeqsUpTo(Pkgs, MaxEncodings)
    /\ files \in Packages
    /\ buf = <<>>
    /\ pc = "header"
    /\ i = 1
    /\ fi = 1
    /\ ei = 1
    /\ found = FALSE
    /\ paramfullname = <<>>
    /\ fmtErr = FALSE
    /\ src = <<>>
    /\ writes = <<>>
    /\ exitCode = -1
    /\ HandlerIdle

\* the header and the package clause
PrintHeader ==
    /\ pc = "header"
    /\ buf' = Printf(Printf(Printf(Printf(buf, <<Banner>>), <<Blank>>),
                            <<PackageClause>>), <<Blank>>)
    /\ pc' = "imports"
    /\ UNCHANGED <<funcs, encodings, files, i, fi, ei, found, paramfullname,
                   fmtErr, src, writes, exitCode, hvars>>

\* the import loop going on after a package that is not installed
CheckImport_Continue ==
    /\ pc = "imports"
    /\ i <= Len(encodings)
    /\ buf' = IF BuildImport(encodings[i]).err
              THEN buf
              ELSE Printf(buf, <<ImportLine(encodings[i])>>)
    /\ i' = i + 1
    /\ UNCHANGED <<funcs, encodings, files, pc, fi, ei, found, paramfullname,
                   fmtErr, src, writes, exitCode, hvars>>

\* one round of the loop that checks the encoding packages
CheckImport ==
    /\ pc = "imports"
    /\ i <= Len(encodings)
    /\ IF BuildImport(encodings[i]).err
       THEN /\ pc' = "exit"             \* log.Fatalf
            /\ exitCode' = 1
            /\ UNCHANGED <<buf, i>>
       ELSE /\ buf' = Printf(buf, <<ImportLine(encodings[i])>>)
            /\ i' = i + 1
            /\ UNCHANGED <<pc, exitCode>>
    /\ UNCHANGED <<funcs, encodings, files, fi, ei, found, paramfullname,
                   fmtErr, src, writes, hvars>>

\* the loop has checked every package
ImportsDone ==
    /\ pc = "imports"
    /\ i > Len(encodings)
    /\ pc' = "generate"
    /\ UNCHANGED <<funcs, encodings, files, buf, i, fi, ei, found,
                   paramfullname, fmtErr, src, writes, exitCode, hvars>>

\* one round of the inner loop: g.generate(funcName, pkg.Name)
generate ==
    /\ pc = "generate"
    /\ fi <= Len(funcs)
    /\ LET funcName == funcs[fi]
           pkgName == BuildImport(encodings[ei]).Name
           walked == Walk(files, funcName)
       IN /\ files' = walked
          /\ found' = Found(walked)
          /\ paramfullname' = ParamFullName(walked)
          /\ buf' = IF Found(walked)
                    THEN build(buf, funcName, pkgName, ParamFullName(walked))
                    ELSE buf             \* "Func not found", on stdout
    /\ IF ei < Len(encodings)
       THEN /\ ei' = ei + 1
            /\ fi' = fi
       ELSE /\ ei' = 1
            /\ fi' = fi + 1
    /\ UNCHANGED <<funcs, encodings, pc, i, fmtErr, src, writes, exitCode,
                   hvars>>

\* src := g.format(), with either outcome of format.Source
Format ==
    /\ pc = "generate"
    /\ fi > Len(funcs)
    /\ \E e \in BOOLEAN :
          /\ fmtErr' = e
          /\ src' = format(buf, e)
    /\ pc' = "write"
    /\ UNCHANGED <<funcs, encodings, files, buf, i, fi, ei, found,
                   paramfullname, writes, exitCode, hvars>>

\* ioutil.WriteFile(outputName, src, 0644), with either outcome
WriteFile ==
    /\ pc = "write"
    /\ \E ok \in BOOLEAN :
          /\ writes' = Append(writes, [data |-> src, ok |-> ok])
          /\ exitCode' = IF ok THEN 0 ELSE 1    \* log.Fatalf on an error
    /\ pc' = "exit"
    /\ UNCHANGED <<funcs, encodings, files, buf, i, fi, ei, found,
                   paramfullname, fmtErr, src, hvars>>

(***************************************************************************)
(* One execution of a handler rendered from handlerWrap.                   *)
(***************************************************************************)
Payloads == {1, 2, 3}        \* what a request body can decode to

RetVals == {200, 201, 404, 500}    \* what Func can return, in either place

\* x := T{}; err := Pkg.NewDecoder(r.Body).Decode(&x)
Decode ==
    /\ hpc = "idle"
    /\ \/ \E v \in Payloads : x' = v /\ err' = FALSE
       \/ x' = 0 /\ err' = TRUE
    /\ hpc' = "decoded"
    /\ UNCHANGED <<resp, s, calls, ret, header, encoded, gvars>>

\* the error branch without its return: the handler goes on to call Func
BadRequest_NoReturn ==
    /\ hpc = "decoded"
    /\ err
    /\ header' = Append(header, StatusBadRequest)
    /\ \E r \in RetVals \X RetVals :
          /\ ret' = r
          /\ resp' = r[1]
          /\ s' = r[2]
    /\ calls' = Append(calls, x)
    /\ hpc' = "called"
    /\ UNCHANGED <<x, err, encoded, gvars>>

\* if err != nil { w.WriteHeader(http.StatusBadRequest); return }
BadRequest ==
    /\ hpc = "decoded"
    /\ err
    /\ header' = Append(header, StatusBadRequest)
    /\ hpc' = "done"
    /\ UNCHANGED <<x, err, resp, s, calls, ret, encoded, gvars>>

\* resp, s := Func(x)
Call ==
    /\ hpc = "decoded"
    /\ ~err
    /\ \E r \in RetVals \X RetVals :
          /\ ret' = r
          /\ resp' = r[1]
          /\ s' = r[2]
    /\ calls' = Append(calls, x)
    /\ hpc' = "called"
    /\ UNCHANGED <<x, err, header, encoded, gvars>>

\* w.WriteHeader(s)
WriteHeader ==
    /\ hpc = "called"
    /\ header' = Append(header, s)
    /\ hpc' = "written"
    /\ UNCHANGED <<x, err, resp, s, calls, ret, encoded, gvars>>

\* Pkg.NewEncoder(w).Encode(resp)
Encode ==
    /\ hpc = "written"
    /\ encoded' = Append(encoded, resp)
    /\ hpc' = "done"
    /\ UNCHANGED <<x, err, resp, s, calls, ret, header, gvars>>

\* the generator has run and left: a request reaches the handler
InitAdapter ==
    /\ funcs = <<>>
    /\ encodings = <<>>
    /\ files = <<>>
    /\ buf = <<>>
    /\ pc = "exit"
    /\ i = 1
    /\ fi = 1
    /\ ei = 1
    /\ found = FALSE
    /\ paramfullname = <<>>
    /\ fmtErr = FALSE
    /\ src = <<>>
    /\ writes = <<>>
    /\ exitCode = 0
    /\ HandlerIdle

NextAdapter ==
    \/ Decode
    \/ BadRequest
    \/ Call
    \/ WriteHeader
    \/ Encode

SpecAdapter == InitAdapter /\ [][NextAdapter]_vars

Next ==
    \/ PrintHeader
    \/ CheckImport
    \/ ImportsDone
    \/ generate
    \/ Format
    \/ WriteFile

Spec == Init /\ [][Next]_vars

(***************************************************************************)
(* Vocabulary of the properties.                                           *)
(***************************************************************************)
\* the declarations of the package named n, as <<file, position>>
DeclsNamed(n) ==
    {fd \in {<<k, d>> : k \in DOMAIN files, d \in 1..MaxDecls} :
        fd[2] <= Len(files[fd[1]].file) /\ files[fd[1]].file[fd[2]].Name = n}

DeclAt(fd) == files[fd[1]].file[fd[2]]

RECURSIVE ParamCount(_)
\* the parameters of a parameter list, each name counted
ParamCount(ps) ==
    IF ps = <<>> THEN 0 ELSE ps[1].Names + ParamCount(Tail(ps))

SupportedType(t) == t.node \in {"Ident", "SelectorExpr"}

\* the type as written in the source: X, or alias.X
TypeText(t) == IF t.node = "Ident" THEN <<t.Name>> ELSE <<t.X, ".", t.Name>>

\* a declaration with exactly one parameter, of a local or qualified type
SingleParam(d) ==
    ParamCount(d.Params) = 1 /\ SupportedType(d.Params[1].Type)

FuncLines(doc) == SelectSeq(doc, LAMBDA l : l.kind = "func")

\* the adapters that the document doc holds for function n
AdaptersOf(doc, n) == SelectSeq(doc, LAMBDA l : l.kind = "func" /\ l.call = n)

Requests(n) == Cardinality({k \in DOMAIN funcs : funcs[k] = n})

GenerateDone == pc \in {"write", "exit"} /\ fi > Len(funcs)

WriteOk == writes # <<>> /\ writes[Len(writes)].ok

AllInstalled == \A k \in DOMAIN encodings : encodings[k] \in InstalledPkgs

\* C1: a requested name that no declaration of the package bears gets no
\* adapter in the output, whatever was requested before it, and the run
\* whose write succeeds ends with exit code 0.
C1_UndeclaredGetsNoAdapter ==
    /\ \A k \in DOMAIN funcs :
          DeclsNamed(funcs[k]) = {} => AdaptersOf(buf, funcs[k]) = <<>>
    /\ (pc = "exit" /\ WriteOk) => exitCode = 0

\* C2: a requested function declared with 0 or with 2 or more parameters
\* (names counted one by one) gets no adapter, and every other requested
\* function with exactly one parameter of a supported type gets one adapter
\* per request and format.
C2_WrongArityGetsNoAdapter ==
    \A k \in DOMAIN funcs :
        LET n == funcs[k]
        IN /\ ( /\ DeclsNamed(n) # {}
                /\ \A fd \in DeclsNamed(n) : ParamCount(DeclAt(fd).Params) # 1 )
              => AdaptersOf(buf, n) = <<>>
           /\ ( /\ GenerateDone
                /\ DeclsNamed(n) # {}
                /\ \A fd \in DeclsNamed(n) : SingleParam(DeclAt(fd)) )
              => Len(AdaptersOf(buf, n)) = Requests(n) * Len(encodings)

\* C3: a requested function declared once, with one parameter of a local or
\* qualified type, gets with N formats N adapters per request, each of which
\* instantiates the function's own parameter type.
C3_AdaptersUseOwnType ==
    \A k \in DOMAIN funcs :
        LET n == funcs[k]
        IN ( /\ GenerateDone
             /\ Cardinality(DeclsNamed(n)) = 1
             /\ \A fd \in DeclsNamed(n) : SingleParam(DeclAt(fd)) )
           => /\ Len(AdaptersOf(buf, n)) = Requests(n) * Len(encodings)
              /\ \A fd \in DeclsNamed(n) :
                    \A m \in DOMAIN AdaptersOf(buf, n) :
                        AdaptersOf(buf, n)[m].T
                            = TypeText(DeclAt(fd).Params[1].Type)

\* C4: when decoding succeeds the function is called exactly once, with the
\* decoded value; the status written is the first value it returned and the
\* value encoded afterwards is the second.
C4_StatusIsFirstReturned ==
    (hpc = "done" /\ ~err)
        => /\ calls = <<x>>
           /\ header = <<ret[1]>>
           /\ encoded = <<ret[2]>>

\* C5: when decoding fails the handler writes status 400 and returns: the
\* function is never called and nothing is encoded.
C5_DecodeFailureIsBadRequest ==
    err => /\ hpc \in {"decoded", "done"}
           /\ calls = <<>>
           /\ encoded = <<>>
           /\ hpc = "done" => header = <<StatusBadRequest>>

C5_Witness ==
    /\ err
    /\ hpc = "done"
    /\ header = <<StatusBadRequest>>

RECURSIVE FirstUse(_)
\* the distinct elements of a sequence, in the order of their first places
FirstUse(q) ==
    IF q = <<>> THEN <<>>
    ELSE LET front == SubSeq(q, 1, Len(q) - 1)
             last == q[Len(q)]
         IN IF \E k \in DOMAIN front : front[k] = last
            THEN FirstUse(front)
            ELSE Append(FirstUse(front), last)

ImportPaths(doc) ==
    LET ls == SelectSeq(doc, LAMBDA l : l.kind = "import")
    IN [k \in DOMAIN ls |-> ls[k].pkg]

\* C6: the document written holds one import line per distinct requested
\* package, in the order of first request.
C6_ImportsAreDistinct ==
    \A k \in DOMAIN writes :
        ImportPaths(writes[k].data) = FirstUse(encodings)

Rank(l) ==
    CASE l.kind = "banner" -> 1
      [] l.kind = "package" -> 2
      [] l.kind = "import" -> 3
      [] OTHER -> 4

\* banner first, then the package clause, then imports, then adapters
Sections(doc) ==
    LET nb == SelectSeq(doc, LAMBDA l : l.kind # "blank")
    IN /\ nb # <<>>
       /\ nb[1] = Banner
       /\ Cardinality({k \in DOMAIN nb : nb[k].kind = "banner"}) = 1
       /\ Cardinality({k \in DOMAIN nb : nb[k].kind = "package"}) = 1
       /\ \A a, b \in DOMAIN nb : a < b => Rank(nb[a]) <= Rank(nb[b])

\* the (function, format) pairs in the order main enumerates them
Enumeration ==
    LET ne == Len(encodings)
    IN [m \in 1..(Len(funcs) * ne) |->
          <<funcs[((m - 1) \div ne) + 1],
            PkgName(encodings[((m - 1) % ne) + 1])>>]

RECURSIVE IsSubSeq(_, _)
\* p is q with some elements left out
IsSubSeq(p, q) ==
    IF p = <<>> THEN TRUE
    ELSE IF q = <<>> THEN FALSE
    ELSE IF p[1] = q[1] THEN IsSubSeq(Tail(p), Tail(q))
    ELSE IsSubSeq(p, Tail(q))

AdapterPairs(doc) ==
    LET ls == FuncLines(doc)
    IN [k \in DOMAIN ls |-> <<ls[k].call, ls[k].pkg>>]

IsPrefix(p, q) == Len(p) <= Len(q) /\ SubSeq(q, 1, Len(p)) = p

WrittenShape ==
    \A k \in DOMAIN writes :
        writes[k].ok =>
            /\ Sections(writes[k].data)
            /\ IsSubSeq(AdapterPairs(writes[k].data), Enumeration)

\* C7: the document of a successful run is the banner, the package clause,
\* the import lines, then the adapters, and the adapters stand in the order
\* of the (function, format) enumeration; the buffer only ever grows at its
\* end.
C7_DocumentOrder == []WrittenShape /\ [][IsPrefix(buf, buf')]_vars

C7_Witness ==
    /\ pc = "exit"
    /\ exitCode = 0
    /\ \E k \in DOMAIN writes :
          LET ls == FuncLines(writes[k].data)
          IN /\ Len(ls) = 4
             /\ ls[1].call # ls[3].call
             /\ ls[1].pkg # ls[2].pkg

\* C8: when some requested package is not installed, the run ends with exit
\* code 1 in the import loop: no adapter is emitted and nothing is written.
C8_MissingPackageIsFatal ==
    ~AllInstalled =>
        /\ pc \in {"header", "imports", "exit"}
        /\ FuncLines(buf) = <<>>
        /\ writes = <<>>
        /\ pc = "exit" => exitCode = 1

C8_Witness ==
    /\ Len(encodings) = 2
    /\ encodings[1] \in InstalledPkgs
    /\ encodings[2] \notin InstalledPkgs
    /\ pc = "exit"
    /\ exitCode = 1
    /\ ImportPaths(buf) = <<encodings[1]>>

\* C9: when formatting fails the run goes on with the buffer as it is: the
\* writer is called once, last, with the unformatted buffer, and the run
\* whose write succeeds ends with exit code 0.
C9_FormatFailureFallsBack ==
    /\ writes # <<>> => pc = "exit"
    /\ fmtErr =>
          /\ pc \in {"write", "exit"}
          /\ src = buf
          /\ pc = "exit" =>
                /\ Len(writes) = 1
                /\ writes[1].data = buf
                /\ writes[1].ok => exitCode = 0

C9_Witness ==
    /\ fmtErr
    /\ pc = "exit"
    /\ exitCode = 0
    /\ Len(writes) = 1
    /\ FuncLines(writes[1].data) # <<>>

\* a declaration whose parameter list has one entry, of a local or
\* qualified type
OneEntry(d) == Len(d.Params) = 1 /\ SupportedType(d.Params[1].Type)

\* the units that hold such a declaration named n
MatchingUnits(n) ==
    {k \in DOMAIN files :
        \E d \in 1..Len(files[k].file) :
            files[k].file[d].Name = n /\ OneEntry(files[k].file[d])}

\* C10: every call of the matcher, the first of a run or a later one, returns
\* the parameter type of the last unit that holds a one-parameter declaration
\* of the target name, and nothing when no unit holds one.
C10_LastMatchingUnitWins ==
    LET target == files[1].funcName
        units == MatchingUnits(target)
        last == CHOOSE k \in units : \A m \in units : m <= k
    IN target # "" =>
          IF units = {}
          THEN ~found /\ paramfullname = <<>>
          ELSE /\ found
               /\ \E d \in 1..Len(files[last].file) :
                     /\ files[last].file[d].Name = target
                     /\ OneEntry(files[last].file[d])
                     /\ paramfullname
                            = TypeText(files[last].file[d].Params[1].Type)

====
